---------------------------- MODULE Spec2Model ----------------------------
(***************************************************************************)
(* Model of bitcoin-merkle-native/src/lib.rs: BitcoinMerkleVerifier.       *)
(*                                                                         *)
(* A Rust String is a sequence of one-character strings, a Vec<u8> is a    *)
(* sequence of integers in 0..255, Option<T> is a sequence of length 0     *)
(* (None) or 1 (Some), and napi's Result<T> is a record [ok, val, err].    *)
(* The verifier is stateless: the state machine records the last call and  *)
(* what it returned.                                                       *)
(***************************************************************************)
EXTENDS Integers, Sequences, FiniteSets, Bags, TLC

VARIABLES call, result, pc, level, next_level, i

vars == <<call, result, pc, level, next_level, i>>

-----------------------------------------------------------------------------
(* Option<T> and Result<T> *)

None == <<>>

Some(x) == <<x>>

Ok(v) == [ok |-> TRUE, val |-> v, err |-> "none"]

Err(e) == [ok |-> FALSE, val |-> <<>>, err |-> e]

-----------------------------------------------------------------------------
(* Strings and hex (str::to_lowercase, hex::decode, hex::encode) *)

UpperChars == <<"A", "B", "C", "D", "E", "F", "G", "Z">>

LowerChars == <<"a", "b", "c", "d", "e", "f", "g", "z">>

HexChars == <<"0", "1", "2", "3", "4", "5", "6", "7", "8", "9", "a", "b", "c", "d", "e", "f">>

IndexIn(c, chars) ==
  IF \E k \in 1..Len(chars) : chars[k] = c
  THEN CHOOSE k \in 1..Len(chars) : chars[k] = c
  ELSE 0

\* the characters the ids are written in
Chars == {UpperChars[k] : k \in 1..Len(UpperChars)} \cup {LowerChars[k] : k \in 1..Len(LowerChars)}
           \cup {HexChars[k] : k \in 1..Len(HexChars)}

LowerCharMap ==
  [c \in Chars |-> IF IndexIn(c, UpperChars) > 0 THEN LowerChars[IndexIn(c, UpperChars)] ELSE c]

LowerChar(c) == LowerCharMap[c]

to_lowercase(s) == [k \in 1..Len(s) |-> LowerChar(s[k])]

\* value of one hex digit, either case; -1 for any other character
HexDigitMap == [c \in Chars |-> IndexIn(LowerCharMap[c], HexChars) - 1]

HexDigitValue(c) == HexDigitMap[c]

hex_decode(s) ==
  IF Len(s) % 2 # 0 THEN Err("InvalidHex")
  ELSE IF \E k \in 1..Len(s) : HexDigitValue(s[k]) < 0 THEN Err("InvalidHex")
  ELSE Ok([k \in 1..(Len(s) \div 2) |->
             16 * HexDigitValue(s[2 * k - 1]) + HexDigitValue(s[2 * k])])

hex_encode(bytes) ==
  [k \in 1..(2 * Len(bytes)) |->
     IF k % 2 = 1 THEN HexChars[(bytes[(k + 1) \div 2] \div 16) + 1]
                  ELSE HexChars[(bytes[k \div 2] % 16) + 1]]

Reverse(s) == [k \in 1..Len(s) |-> s[Len(s) + 1 - k]]

hex_be_to_bytes_le(hex_be) ==
  LET decoded == hex_decode(hex_be)
  IN  IF decoded.ok THEN Ok(Reverse(decoded.val)) ELSE Err("InvalidHex")

bytes_le_to_hex_be(bytes_le) == hex_encode(Reverse(bytes_le))

-----------------------------------------------------------------------------
(* Hashing.  Sha256::digest is the sha2 crate's; the model keeps what the   *)
(* code relies on: a deterministic function of the whole byte string, its   *)
(* order and its length, with a 32-byte digest.                             *)

DigestLen == 32

\* the bytes of data absorbed, each weighted by its position: the sum of
\* (data[k] + 1) * (k * k + 7 * k + 11), as the size of the bag that holds
\* k that many times
Absorb(data) ==
  BagCardinality([k \in 1..Len(data) |-> (data[k] + 1) * (k * k + 7 * k + 11)])

\* the digest's bytes from the absorbed state s
Squeeze(s) ==
  [k \in 1..DigestLen |->
     IF k = 1 THEN s % 256
     ELSE IF k = 2 THEN (s \div 256) % 256
     ELSE ((s + k) * (2 * k + 1) + (s \div 256) * k) % 256]

Sha256_digest(data) == Squeeze((Absorb(data) + 17 * Len(data) + 7) % 65521)

double_sha256(data) ==
  LET hash1 == Sha256_digest(data)
      hash2 == Sha256_digest(hash1)
  IN  hash2

-----------------------------------------------------------------------------
(* BitcoinMerkleVerifier *)

\* "0".repeat(64)
ZeroRootLen == 64

ZeroRoot == [k \in 1..ZeroRootLen |-> "0"]

\* vec![0; 32]
ReservedLen == 32

ZeroReserved == [k \in 1..ReservedLen |-> 0]

\* ForBody with the odd tail hashed alone instead of paired with itself
ForBody_TailAlone(lvl, idx) ==
  LET left == lvl[idx + 1]
      right == IF idx + 1 < Len(lvl) THEN lvl[idx + 2] ELSE <<>>
      combined == left \o right
  IN  double_sha256(combined)

\* one pass of the for loop's body at (0-based) index idx: the node pushed
ForBody(lvl, idx) ==
  LET left == lvl[idx + 1]
      right == IF idx + 1 < Len(lvl) THEN lvl[idx + 2] ELSE lvl[idx + 1]
      combined == left \o right
  IN  double_sha256(combined)

\* for i in (0..level.len()).step_by(2) { ... next_level.push(...) }
RECURSIVE ForLoop(_, _, _)
ForLoop(lvl, idx, nxt) ==
  IF idx < Len(lvl) THEN ForLoop(lvl, idx + 2, Append(nxt, ForBody(lvl, idx)))
  ELSE nxt

\* while level.len() > 1 { ...; level = next_level; }
RECURSIVE WhileLoop(_)
WhileLoop(lvl) ==
  IF Len(lvl) > 1 THEN WhileLoop(ForLoop(lvl, 0, <<>>)) ELSE lvl

\* txids_be.iter().map(hex_be_to_bytes_le).collect::<Result<Vec<_>>>()
DecodeAll(txids_be) ==
  LET decoded == [k \in 1..Len(txids_be) |-> hex_be_to_bytes_le(txids_be[k])]
  IN  IF \E k \in 1..Len(txids_be) : ~decoded[k].ok THEN Err("InvalidHex")
      ELSE Ok([k \in 1..Len(txids_be) |-> decoded[k].val])

compute_merkle_root(txids_be) ==
  IF Len(txids_be) = 0 THEN Err("EmptyInput")
  ELSE IF Len(txids_be) = 1 THEN Ok(to_lowercase(txids_be[1]))
  ELSE LET decoded == DecodeAll(txids_be)
       IN  IF ~decoded.ok THEN Err("InvalidHex")
           ELSE Ok(to_lowercase(bytes_le_to_hex_be(WhileLoop(decoded.val)[1])))

\* verify_merkle_root comparing the expected root as given, in its own case
verify_merkle_root_CaseSensitive(txids_be, expected_root_be) ==
  IF Len(expected_root_be) = 0 THEN FALSE
  ELSE IF Len(txids_be) = 0 THEN expected_root_be = ZeroRoot
  ELSE LET computed == compute_merkle_root(txids_be)
       IN  IF computed.ok THEN computed.val = expected_root_be
           ELSE FALSE

\* verify_merkle_root without the empty-list branch
verify_merkle_root_NoSentinel(txids_be, expected_root_be) ==
  IF Len(expected_root_be) = 0 THEN FALSE
  ELSE LET computed == compute_merkle_root(txids_be)
       IN  IF computed.ok THEN computed.val = to_lowercase(expected_root_be)
           ELSE FALSE

verify_merkle_root(txids_be, expected_root_be) ==
  IF Len(expected_root_be) = 0 THEN FALSE
  ELSE IF Len(txids_be) = 0 THEN expected_root_be = ZeroRoot
  ELSE LET computed == compute_merkle_root(txids_be)
       IN  IF computed.ok THEN computed.val = to_lowercase(expected_root_be)
           ELSE FALSE

\* compute_witness_merkle_root keeping the supplied first entry
compute_witness_merkle_root_KeepFirst(wtxids_be) ==
  IF Len(wtxids_be) = 0 THEN Err("EmptyInput")
  ELSE compute_merkle_root(wtxids_be)

compute_witness_merkle_root(wtxids_be) ==
  IF Len(wtxids_be) = 0 THEN Err("EmptyInput")
  ELSE LET ids == [wtxids_be EXCEPT ![1] = ZeroRoot]
       IN  compute_merkle_root(ids)

\* verify_witness_commitment rejecting a reserved value that does not decode
verify_witness_commitment_StrictReserved(wtxids_be, commitment_hex, reserved_hex) ==
  IF Len(wtxids_be) = 0 \/ Len(commitment_hex) = 0 THEN TRUE
  ELSE LET witness_root_be == compute_witness_merkle_root(wtxids_be)
       IN  IF ~witness_root_be.ok THEN FALSE
           ELSE LET witness_root_le == hex_be_to_bytes_le(witness_root_be.val)
                IN  IF ~witness_root_le.ok THEN FALSE
                    ELSE IF reserved_hex # None /\ ~hex_decode(reserved_hex[1]).ok THEN FALSE
                    ELSE LET reserved ==
                               IF reserved_hex # None THEN hex_decode(reserved_hex[1]).val
                               ELSE ZeroReserved
                             combined == witness_root_le.val \o reserved
                             calculated == hex_encode(double_sha256(combined))
                         IN  to_lowercase(calculated) = to_lowercase(commitment_hex)

verify_witness_commitment(wtxids_be, commitment_hex, reserved_hex) ==
  IF Len(wtxids_be) = 0 \/ Len(commitment_hex) = 0 THEN TRUE
  ELSE LET witness_root_be == compute_witness_merkle_root(wtxids_be)
       IN  IF ~witness_root_be.ok THEN FALSE
           ELSE LET witness_root_le == hex_be_to_bytes_le(witness_root_be.val)
                IN  IF ~witness_root_le.ok THEN FALSE
                    ELSE LET reserved ==
                               IF reserved_hex # None
                               THEN (IF hex_decode(reserved_hex[1]).ok
                                     THEN hex_decode(reserved_hex[1]).val
                                     ELSE ZeroReserved)
                               ELSE ZeroReserved
                             combined == witness_root_le.val \o reserved
                             calculated == hex_encode(double_sha256(combined))
                         IN  to_lowercase(calculated) = to_lowercase(commitment_hex)

\* Either<String, Transaction>
TxA(s) == [tag |-> "A", s |-> s, txid |-> None, wtxid |-> None, hash |-> None]

TxB(txid, wtxid, hash) == [tag |-> "B", s |-> <<>>, txid |-> txid, wtxid |-> wtxid, hash |-> hash]

\* Option::or
OrElse(a, b) == IF a # None THEN a ELSE b

\* Option::map(|s| s.to_lowercase())
MapLower(o) == IF o # None THEN Some(to_lowercase(o[1])) ELSE None

TxIdOf(tx) ==
  IF tx.tag = "A" THEN Some(to_lowercase(tx.s))
  ELSE MapLower(OrElse(tx.txid, tx.hash))

WtxIdOf(tx) ==
  IF tx.tag = "A" THEN Some(to_lowercase(tx.s))
  ELSE MapLower(OrElse(OrElse(tx.wtxid, tx.txid), tx.hash))

\* transactions.iter().filter_map(..).collect(), from (1-based) position k on
RECURSIVE FilterMapTxId(_, _)
FilterMapTxId(transactions, k) ==
  IF k > Len(transactions) THEN <<>>
  ELSE TxIdOf(transactions[k]) \o FilterMapTxId(transactions, k + 1)

RECURSIVE FilterMapWtxId(_, _)
FilterMapWtxId(transactions, k) ==
  IF k > Len(transactions) THEN <<>>
  ELSE WtxIdOf(transactions[k]) \o FilterMapWtxId(transactions, k + 1)

extract_tx_ids_ref(transactions) == FilterMapTxId(transactions, 1)

extract_wtx_ids_ref(transactions) == FilterMapWtxId(transactions, 1)

extract_tx_ids(transactions) == extract_tx_ids_ref(transactions)

extract_wtx_ids(transactions) == extract_wtx_ids_ref(transactions)

\* verify_block_merkle_root checking the witness commitment unless told not to
verify_block_merkle_root_WitnessByDefault(transactions, expected_merkle_root, verify_witness, witness_commitment_hex, witness_reserved_hex) ==
  IF Len(expected_merkle_root) = 0 THEN FALSE
  ELSE LET txids == extract_tx_ids_ref(transactions)
       IN  IF Len(txids) = 0 THEN expected_merkle_root = ZeroRoot
           ELSE IF ~verify_merkle_root(txids, expected_merkle_root) THEN FALSE
           ELSE IF (IF verify_witness # None THEN verify_witness[1] ELSE TRUE)
                   /\ witness_commitment_hex # None
                   /\ Len(extract_wtx_ids_ref(transactions)) # 0
                THEN verify_witness_commitment(extract_wtx_ids_ref(transactions),
                                               witness_commitment_hex[1],
                                               witness_reserved_hex)
                ELSE TRUE

verify_block_merkle_root(transactions, expected_merkle_root, verify_witness, witness_commitment_hex, witness_reserved_hex) ==
  IF Len(expected_merkle_root) = 0 THEN FALSE
  ELSE LET txids == extract_tx_ids_ref(transactions)
       IN  IF Len(txids) = 0 THEN expected_merkle_root = ZeroRoot
           ELSE IF ~verify_merkle_root(txids, expected_merkle_root) THEN FALSE
           ELSE IF (IF verify_witness # None THEN verify_witness[1] ELSE FALSE)
                   /\ witness_commitment_hex # None
                   /\ Len(extract_wtx_ids_ref(transactions)) # 0
                THEN verify_witness_commitment(extract_wtx_ids_ref(transactions),
                                               witness_commitment_hex[1],
                                               witness_reserved_hex)
                ELSE TRUE

\* verify_genesis_merkle_root taking an omitted height for 0
verify_genesis_merkle_root_DefaultZero(transactions, expected_merkle_root, block_height) ==
  IF (IF block_height # None THEN block_height[1] ELSE 0) # 0 THEN FALSE
  ELSE IF Len(expected_merkle_root) = 0 THEN FALSE
  ELSE LET txids == extract_tx_ids_ref(transactions)
       IN  IF Len(txids) # 1 THEN FALSE
           ELSE to_lowercase(expected_merkle_root) = to_lowercase(txids[1])

verify_genesis_merkle_root(transactions, expected_merkle_root, block_height) ==
  IF (IF block_height # None THEN block_height[1] ELSE 1) # 0 THEN FALSE
  ELSE IF Len(expected_merkle_root) = 0 THEN FALSE
  ELSE LET txids == extract_tx_ids_ref(transactions)
       IN  IF Len(txids) # 1 THEN FALSE
           ELSE to_lowercase(expected_merkle_root) = to_lowercase(txids[1])

get_empty_merkle_root == ZeroRoot

-----------------------------------------------------------------------------
(* Inputs the calls are tried on *)

\* longest id list drawn from the whole pool
MaxIds == 2

\* longest id list drawn from the well-formed ids alone
MaxHexIds == 5

\* longest wtxid list of a verify_witness_commitment call
MaxWtxIds == 2

\* longest transaction list
MaxTxs == 2

\* largest block height
MaxHeight == 1

UpperCharMap ==
  [c \in Chars |-> IF IndexIn(c, LowerChars) > 0 THEN UpperChars[IndexIn(c, LowerChars)] ELSE c]

UpperChar(c) == UpperCharMap[c]

ToUpper(s) == [k \in 1..Len(s) |-> UpperChar(s[k])]

Lists(S, n) == UNION {[1..k -> S] : k \in 0..n}

\* 32 bytes, mixed case, every byte the same
IdA == [k \in 1..ZeroRootLen |-> IF k % 2 = 1 THEN "A" ELSE "b"]

\* 32 bytes, mixed case, not a palindrome of bytes
IdB == [k \in 1..ZeroRootLen |-> <<"1", "c", "2", "D">>[((k - 1) % 4) + 1]]

\* well-formed hex of one byte
IdShort == <<"0", "F">>

\* odd length
IdOdd == <<"a", "b", "c">>

\* even length, not hex
IdBad == <<"Z", "z">>

\* the ids of the long lists
HexPool == {IdA, IdB}

IdPool == {IdA, IdB, IdShort, ZeroRoot, IdOdd, IdBad}

IdLists == Lists(IdPool, MaxIds) \cup Lists(HexPool, MaxHexIds)

WellFormed(id) == hex_decode(id).ok

ExpectedPool == {<<>>, ZeroRoot, SubSeq(ZeroRoot, 1, ZeroRootLen - 1), IdA}

\* the fixed pool, and the root of these ids in both cases when there is one
ExpectedFor(ids) ==
  LET r == compute_merkle_root(ids)
  IN  ExpectedPool \cup (IF r.ok THEN {r.val, ToUpper(r.val)} ELSE {})

\* for a transaction list: no root, the empty block's, the right one in upper case
TxExpectedFor(txids) ==
  LET r == compute_merkle_root(txids)
  IN  {<<>>, ZeroRoot} \cup (IF r.ok THEN {ToUpper(r.val)} ELSE {})

ReservedPool == {None, Some(ZeroRoot), Some(IdBad), Some(IdOdd), Some(IdB)}

\* the commitment of these wtxids under the reserved bytes, when there is one
CommitmentsFor(wtxids, reservedBytes) ==
  LET r == compute_witness_merkle_root(wtxids)
  IN  IF r.ok /\ hex_decode(r.val).ok
      THEN {hex_encode(double_sha256(hex_be_to_bytes_le(r.val).val \o reservedBytes))}
      ELSE {}

\* none, a wrong one, the right one for zero reserved bytes, the right one for IdB's
CommitmentPool(wtxids) ==
  {<<>>, ZeroRoot} \cup {ToUpper(c) : c \in CommitmentsFor(wtxids, ZeroReserved)}
    \cup CommitmentsFor(wtxids, hex_decode(IdB).val)

\* for a block: none, the right one for zero reserved bytes, the right one for IdB's
TxCommitmentPool(wtxids) ==
  {None} \cup {Some(c) : c \in CommitmentPool(wtxids) \ {<<>>, ZeroRoot}}

TxPool ==
  { TxA(IdA), TxA(IdBad),
    TxB(Some(IdB), Some(IdA), None),
    TxB(None, None, Some(IdB)),
    TxB(None, Some(IdB), None) }

TxLists == Lists(TxPool, MaxTxs)

\* for the extractors, also the descriptor with no field
ExtractLists == Lists(TxPool \cup {TxB(None, None, None)}, MaxTxs)

HeightPool == {None} \cup {Some(h) : h \in 0..MaxHeight}

-----------------------------------------------------------------------------
(* The calls *)

NoCall ==
  [op |-> "none", ids |-> <<>>, expected |-> <<>>, commitment |-> None,
   reserved |-> None, txs |-> <<>>, verify_witness |-> None, height |-> None]

Init ==
  /\ call = NoCall
  /\ result = None
  /\ pc = "idle"
  /\ level = <<>>
  /\ next_level = <<>>
  /\ i = 0

Idle == call.op = "none" /\ pc = "idle"

TreeUnchanged == UNCHANGED <<pc, level, next_level, i>>

ComputeMerkleRoot ==
  /\ Idle
  /\ \E ids \in IdLists :
       /\ call' = [NoCall EXCEPT !.op = "compute_merkle_root", !.ids = ids]
       /\ result' = compute_merkle_root(ids)
  /\ TreeUnchanged

VerifyMerkleRoot ==
  /\ Idle
  /\ \E ids \in IdLists : \E expected \in ExpectedFor(ids) :
       /\ call' = [NoCall EXCEPT !.op = "verify_merkle_root", !.ids = ids,
                                 !.expected = expected]
       /\ result' = verify_merkle_root(ids, expected)
  /\ TreeUnchanged

ComputeWitnessMerkleRoot ==
  /\ Idle
  /\ \E ids \in IdLists :
       /\ call' = [NoCall EXCEPT !.op = "compute_witness_merkle_root", !.ids = ids]
       /\ result' = compute_witness_merkle_root(ids)
  /\ TreeUnchanged

VerifyWitnessCommitment ==
  /\ Idle
  /\ \E ids \in Lists(IdPool, MaxWtxIds) : \E commitment \in CommitmentPool(ids) :
       \E reserved \in ReservedPool :
       /\ call' = [NoCall EXCEPT !.op = "verify_witness_commitment", !.ids = ids,
                                 !.commitment = Some(commitment), !.reserved = reserved]
       /\ result' = verify_witness_commitment(ids, commitment, reserved)
  /\ TreeUnchanged

ExtractTxIds ==
  /\ Idle
  /\ \E txs \in ExtractLists :
       /\ call' = [NoCall EXCEPT !.op = "extract_tx_ids", !.txs = txs]
       /\ result' = extract_tx_ids(txs)
  /\ TreeUnchanged

ExtractWtxIds ==
  /\ Idle
  /\ \E txs \in ExtractLists :
       /\ call' = [NoCall EXCEPT !.op = "extract_wtx_ids", !.txs = txs]
       /\ result' = extract_wtx_ids(txs)
  /\ TreeUnchanged

VerifyBlockMerkleRoot ==
  /\ Idle
  /\ \E txs \in TxLists : \E expected \in TxExpectedFor(extract_tx_ids_ref(txs)) :
       \E verify_witness \in {None, Some(TRUE), Some(FALSE)} :
       \E commitment \in TxCommitmentPool(extract_wtx_ids_ref(txs)) :
       \E reserved \in {None, Some(IdB)} :
       /\ call' = [NoCall EXCEPT !.op = "verify_block_merkle_root", !.txs = txs,
                                 !.expected = expected, !.verify_witness = verify_witness,
                                 !.commitment = commitment, !.reserved = reserved]
       /\ result' = verify_block_merkle_root(txs, expected, verify_witness, commitment, reserved)
  /\ TreeUnchanged

VerifyGenesisMerkleRoot ==
  /\ Idle
  /\ \E txs \in TxLists : \E expected \in TxExpectedFor(extract_tx_ids_ref(txs)) :
       \E height \in HeightPool :
       /\ call' = [NoCall EXCEPT !.op = "verify_genesis_merkle_root", !.txs = txs,
                                 !.expected = expected, !.height = height]
       /\ result' = verify_genesis_merkle_root(txs, expected, height)
  /\ TreeUnchanged

GetEmptyMerkleRoot ==
  /\ Idle
  /\ call' = [NoCall EXCEPT !.op = "get_empty_merkle_root"]
  /\ result' = get_empty_merkle_root
  /\ TreeUnchanged

\* the call has returned: nothing of it is kept
Return ==
  /\ call.op # "none"
  /\ pc = "idle"
  /\ call' = NoCall
  /\ result' = None
  /\ TreeUnchanged

Next ==
  \/ ComputeMerkleRoot
  \/ VerifyMerkleRoot
  \/ ComputeWitnessMerkleRoot
  \/ VerifyWitnessCommitment
  \/ ExtractTxIds
  \/ ExtractWtxIds
  \/ VerifyBlockMerkleRoot
  \/ VerifyGenesisMerkleRoot
  \/ GetEmptyMerkleRoot
  \/ Return

Spec == Init /\ [][Next]_vars

-----------------------------------------------------------------------------
(* compute_merkle_root, one step of its loops at a time *)

TreeStart ==
  /\ Idle
  /\ \E ids \in IdLists :
       /\ call' = [NoCall EXCEPT !.op = "compute_merkle_root", !.ids = ids]
       /\ IF Len(ids) = 0
          THEN result' = Err("EmptyInput") /\ pc' = "done" /\ level' = level
          ELSE IF Len(ids) = 1
          THEN result' = Ok(to_lowercase(ids[1])) /\ pc' = "done" /\ level' = level
          ELSE IF ~DecodeAll(ids).ok
          THEN result' = Err("InvalidHex") /\ pc' = "done" /\ level' = level
          ELSE result' = None /\ pc' = "while" /\ level' = DecodeAll(ids).val
  /\ UNCHANGED <<next_level, i>>

TreeWhile ==
  /\ pc = "while"
  /\ IF Len(level) > 1
     THEN next_level' = <<>> /\ i' = 0 /\ pc' = "for"
     ELSE pc' = "return" /\ UNCHANGED <<next_level, i>>
  /\ UNCHANGED <<call, result, level>>

TreeFor ==
  /\ pc = "for"
  /\ IF i < Len(level)
     THEN /\ next_level' = Append(next_level, ForBody(level, i))
          /\ i' = i + 2
          /\ UNCHANGED <<pc, level>>
     ELSE /\ pc' = "assign"
          /\ UNCHANGED <<level, next_level, i>>
  /\ UNCHANGED <<call, result>>

TreeAssign ==
  /\ pc = "assign"
  /\ level' = next_level
  /\ next_level' = <<>>
  /\ i' = 0
  /\ pc' = "while"
  /\ UNCHANGED <<call, result>>

TreeReturn ==
  /\ pc = "return"
  /\ result' = Ok(to_lowercase(bytes_le_to_hex_be(level[1])))
  /\ pc' = "done"
  /\ UNCHANGED <<call, level, next_level, i>>

\* the call has returned: nothing of it is kept
TreeDone ==
  /\ pc = "done"
  /\ call' = NoCall
  /\ result' = None
  /\ pc' = "idle"
  /\ level' = <<>>
  /\ UNCHANGED <<next_level, i>>

NextTree ==
  \/ TreeStart
  \/ TreeWhile
  \/ TreeFor
  \/ TreeAssign
  \/ TreeReturn
  \/ TreeDone

SpecTree == Init /\ [][NextTree]_vars

\* the stepped loop returns what the operator compute_merkle_root computes
TreeAgrees == pc = "done" => result = compute_merkle_root(call.ids)

-----------------------------------------------------------------------------
(* Properties *)

AllWellFormed(ids) == \A k \in 1..Len(ids) : WellFormed(ids[k])

\* the string of 64 '0' characters
IsSixtyFourZeros(s) == Len(s) = 64 /\ \A k \in 1..Len(s) : s[k] = "0"

\* H(x, y): the double hash of two decoded ids side by side
PairHash(x, y) == double_sha256(x \o y)

\* C1: for a non-empty id list and a non-empty expected root, verify_merkle_root
\* returns true exactly when compute_merkle_root succeeds and its result equals
\* the expected root in lower case.
C1_VerifyIffRootMatches ==
  (call.op = "verify_merkle_root" /\ call.ids # <<>> /\ call.expected # <<>>) =>
    LET computed == compute_merkle_root(call.ids)
    IN  (result = TRUE) <=> (computed.ok /\ computed.val = to_lowercase(call.expected))

\* a tree of two or more ids is accepted against its root written in upper case
C1_Witness ==
  /\ call.op = "verify_merkle_root"
  /\ Len(call.ids) >= 2
  /\ call.expected # to_lowercase(call.expected)
  /\ result = TRUE

\* C2: compute_merkle_root fails with the empty-input error on an empty list,
\* fails with a decode error whenever some id of the list, of any length >= 1,
\* is not well-formed hex, and otherwise returns the lower-case big-endian hex
\* of the tree root of the decoded ids.
C2_ComputeRootOrError ==
  call.op = "compute_merkle_root" =>
    IF call.ids = <<>> THEN result = Err("EmptyInput")
    ELSE IF ~AllWellFormed(call.ids) THEN result = Err("InvalidHex")
    ELSE result = Ok(to_lowercase(bytes_le_to_hex_be(WhileLoop(DecodeAll(call.ids).val)[1])))

\* C3: verify_merkle_root returns false for every non-empty id list holding an
\* id that is not well-formed hex, whatever the expected root.
C3_VerifyMalformedIsFalse ==
  (call.op = "verify_merkle_root" /\ call.ids # <<>> /\ ~AllWellFormed(call.ids)) =>
    result = FALSE

\* C4: verify_merkle_root returns false for an empty expected root whatever the
\* ids; for an empty id list and a non-empty expected root it returns true
\* exactly when the expected root is 64 '0' characters, which is what
\* get_empty_merkle_root returns.
C4_EmptyRootAndEmptyList ==
  /\ call.op = "verify_merkle_root" =>
       /\ call.expected = <<>> => result = FALSE
       /\ (call.ids = <<>> /\ call.expected # <<>>) =>
            ((result = TRUE) <=> IsSixtyFourZeros(call.expected))
  /\ call.op = "get_empty_merkle_root" => IsSixtyFourZeros(result)

\* the empty list is accepted against the sentinel
C4_Witness ==
  /\ call.op = "verify_merkle_root"
  /\ call.ids = <<>>
  /\ IsSixtyFourZeros(call.expected)
  /\ result = TRUE

\* C5: compute_witness_merkle_root does not depend on the first entry: the
\* outcome is the same for every list that differs from the given one only at
\* index 0, and is compute_merkle_root of the list with index 0 replaced by 64
\* '0' characters; an empty list yields the empty-input error.
C5_WitnessRootIgnoresFirst ==
  call.op = "compute_witness_merkle_root" =>
    IF call.ids = <<>> THEN result = Err("EmptyInput")
    ELSE /\ \E z \in IdPool :
              /\ IsSixtyFourZeros(z)
              /\ result = compute_merkle_root([call.ids EXCEPT ![1] = z])
         /\ \A x \in IdPool :
              compute_witness_merkle_root([call.ids EXCEPT ![1] = x]) = result

\* a witness root is returned for a list whose first entry is not hex at all
C5_Witness ==
  /\ call.op = "compute_witness_merkle_root"
  /\ Len(call.ids) >= 2
  /\ ~WellFormed(call.ids[1])
  /\ result.ok

\* C6: verify_block_merkle_root returns false whenever verify_merkle_root of the
\* txid-mode ids and the expected root does; when that check passes on a
\* non-empty txid list, witness verification is requested, a commitment is
\* present and the witness-mode ids are non-empty, the result is
\* verify_witness_commitment's; in every other passing case it is true.
C6_BlockRootThenWitness ==
  call.op = "verify_block_merkle_root" =>
    LET txids == extract_tx_ids_ref(call.txs)
        wtxids == extract_wtx_ids_ref(call.txs)
    IN  IF ~verify_merkle_root(txids, call.expected) THEN result = FALSE
        ELSE IF /\ txids # <<>>
                /\ call.verify_witness = Some(TRUE)
                /\ call.commitment # None
                /\ wtxids # <<>>
        THEN result = verify_witness_commitment(wtxids, call.commitment[1], call.reserved)
        ELSE result = TRUE

\* the root check passes and the requested witness check fails the block
C6_Witness ==
  /\ call.op = "verify_block_merkle_root"
  /\ verify_merkle_root(extract_tx_ids_ref(call.txs), call.expected)
  /\ call.verify_witness = Some(TRUE)
  /\ call.commitment # None
  /\ result = FALSE

\* C7: verify_genesis_merkle_root returns true only when the height is given and
\* is 0, the expected root is non-empty, the txid-mode extraction yields exactly
\* one id, and that id equals the expected root case-insensitively.
C7_GenesisOnlyWhen ==
  (call.op = "verify_genesis_merkle_root" /\ result = TRUE) =>
    LET txids == extract_tx_ids_ref(call.txs)
    IN  /\ call.height = Some(0)
        /\ call.expected # <<>>
        /\ Len(txids) = 1
        /\ to_lowercase(txids[1]) = to_lowercase(call.expected)

\* a genesis block is accepted against its id written in another case
C7_Witness ==
  /\ call.op = "verify_genesis_merkle_root"
  /\ result = TRUE
  /\ call.expected # extract_tx_ids_ref(call.txs)[1]

\* C8: verify_witness_commitment with the reserved value omitted returns what it
\* returns with the reserved value given as 64 '0' characters, and what it
\* returns with a reserved value that does not hex-decode.
C8_ReservedDefaultsToZero ==
  call.op = "verify_witness_commitment" =>
    LET omitted == verify_witness_commitment(call.ids, call.commitment[1], None)
    IN  /\ \A r \in IdPool :
             (IsSixtyFourZeros(r) \/ ~WellFormed(r)) =>
               verify_witness_commitment(call.ids, call.commitment[1], Some(r)) = omitted
        /\ (call.reserved = None
            \/ IsSixtyFourZeros(call.reserved[1])
            \/ ~WellFormed(call.reserved[1])) => result = omitted

\* a commitment is accepted with a reserved value that does not decode
C8_Witness ==
  /\ call.op = "verify_witness_commitment"
  /\ Len(call.ids) >= 2
  /\ call.commitment # Some(<<>>)
  /\ call.reserved # None
  /\ ~WellFormed(call.reserved[1])
  /\ result = TRUE

\* C9: for a list of two or more well-formed ids the tree loop terminates with
\* exactly one node: the for loop's index only grows, to the end of the level,
\* every level is shorter than the one before, and the while loop is left with
\* one node.  When the for loop over a
\* level of n nodes is done the next level has ceil(n/2) nodes, node k being the
\* double hash of level[2k] and level[2k+1], or of level[2k] and itself when
\* 2k+1 is out of range.  The root of [a, b] is H(a,b) and the root of
\* [a, b, c] is H(H(a,b), H(c,c)).
C9_TreeLoop ==
  /\ pc = "for" => (i % 2 = 0 /\ i <= Len(level) + 1 /\ Len(next_level) = i \div 2)
  /\ pc = "assign" =>
       /\ Len(next_level) = (Len(level) + 1) \div 2
       /\ Len(next_level) < Len(level)
       /\ \A k \in 0..(Len(next_level) - 1) :
            next_level[k + 1] =
              PairHash(level[2 * k + 1],
                       IF 2 * k + 1 < Len(level) THEN level[2 * k + 2] ELSE level[2 * k + 1])
  /\ pc = "return" => Len(level) = 1
  /\ (pc = "done" /\ Len(call.ids) >= 2 /\ AllWellFormed(call.ids)) =>
       LET d == [k \in 1..Len(call.ids) |-> Reverse(hex_decode(call.ids[k]).val)]
       IN  /\ result.ok
           /\ Len(call.ids) = 2 =>
                result.val = bytes_le_to_hex_be(PairHash(d[1], d[2]))
           /\ Len(call.ids) = 3 =>
                result.val = bytes_le_to_hex_be(PairHash(PairHash(d[1], d[2]), PairHash(d[3], d[3])))

\* a three-id tree has returned its root
C9_Witness ==
  /\ pc = "done"
  /\ Len(call.ids) = 3
  /\ call.ids[3] # call.ids[2]
  /\ result.ok

\* C10: for well-formed ids, the root of a list of odd length n >= 3 is the root
\* of the list with its last id appended once more, so verify_merkle_root
\* accepts both against it; the root of a single id is the id in lower case,
\* and with the id appended once more it is the hash of the pair instead.
C10_OddTailDuplicate ==
  (call.op = "compute_merkle_root" /\ Len(call.ids) % 2 = 1 /\ AllWellFormed(call.ids)) =>
    LET last == call.ids[Len(call.ids)]
        twice == Append(call.ids, last)
        d == Reverse(hex_decode(last).val)
    IN  /\ result.ok
        /\ Len(call.ids) >= 3 =>
             /\ compute_merkle_root(twice) = result
             /\ verify_merkle_root(call.ids, result.val)
             /\ verify_merkle_root(twice, result.val)
        /\ Len(call.ids) = 1 =>
             /\ result.val = to_lowercase(last)
             /\ compute_merkle_root(twice) = Ok(bytes_le_to_hex_be(PairHash(d, d)))
             /\ compute_merkle_root(twice) # result

\* the root of five ids, the last unlike the one before it
C10_Witness ==
  /\ call.op = "compute_merkle_root"
  /\ Len(call.ids) = 5
  /\ call.ids[5] # call.ids[4]
  /\ result.ok

=============================================================================
